---- MODULE Spec2Model ----
(***************************************************************************)
(* Model of Proof::verify (src/src/plonk/verifier.rs), the PLONK verifier   *)
(* of pasta_curves: Fiat-Shamir transcripts, gate evaluation, the quotient  *)
(* identity check, the two-stage query aggregation and the final opening.   *)
(*                                                                          *)
(* The scalar field C::Scalar is the prime field of order P; a curve point  *)
(* is written by its discrete logarithm in the group of order P, so that    *)
(* the identity point is 0, point addition is addition mod P and scalar     *)
(* multiplication is multiplication mod P.                                  *)
(***************************************************************************)
EXTENDS Integers, Sequences, FiniteSets, TLC

VARIABLES
    proof,              \* self: the proof being verified (read only)
    srs,                \* srs: metadata, fixed commitments, domain (read only)
    params,             \* params: n (read only)
    pc,                 \* position in Proof::verify
    result,             \* "running", "true", "false" or "panic"
    transcript,         \* base-field transcript: sequence of events
    transcript_scalar,  \* scalar-field transcript: sequence of events
    x_2, x_3, x_4, x_5, x_6, x_7,   \* challenges, None until squeezed
    h_eval,             \* gate sum, then gate sum / (xn - 1)
    xn,                 \* x_3^n
    expected_h_eval,    \* sum_i h_evals_x[i] * xn^i
    q_commitments,      \* per query row: None or accumulated commitment
    q_evals,            \* per query row: accumulated evaluation
    f_eval,             \* local f_eval
    f_commitment,       \* local f_commitment
    opening_call        \* arguments handed to params.verify_proof

vars == <<proof, srs, params, pc, result, transcript, transcript_scalar,
          x_2, x_3, x_4, x_5, x_6, x_7, h_eval, xn, expected_h_eval,
          q_commitments, q_evals, f_eval, f_commitment, opening_call>>

inputs == <<proof, srs, params>>
challenges == <<x_2, x_3, x_4, x_5, x_6, x_7>>
identity_vars == <<h_eval, xn, expected_h_eval>>
merge_vars == <<q_commitments, q_evals>>
fold_vars == <<f_eval, f_commitment>>

-----------------------------------------------------------------------------
(* Bounds of the model *)

\* longest h_commitments / h_evals_x list drawn
MaxChunks == 3

\* order of the scalar field (and of the curve group)
P == 5

\* Option::None, also the value of a local not yet assigned
None == -1

Field == 0 .. (P - 1)
Identity == 0

-----------------------------------------------------------------------------
(* Field arithmetic *)

Add(a, b) == (a + b) % P
Sub(a, b) == (a - b + P) % P
Mul(a, b) == (a * b) % P

RECURSIVE Pow(_, _)
Pow(a, e) == IF e = 0 THEN 1 ELSE Mul(a, Pow(a, e - 1))

\* invert() is a CtOption: none on zero
IsInvertible(a) == a # 0
Invert(a) == CHOOSE y \in Field : Mul(a, y) = 1

Abs(i) == IF i >= 0 THEN i ELSE -i

Min(S) == CHOOSE m \in S : \A k \in S : m <= k

\* 0-based indexing into a Vec
InRange(v, index) == index >= 0 /\ index < Len(v)
At(v, index) == v[index + 1]

-----------------------------------------------------------------------------
(* Gate expressions: <<"Fixed", i>>, <<"Advice", i>>, <<"Sum", a, b>>,     *)
(* <<"Product", a, b>>, <<"Scaled", a, s>>                                 *)

RECURSIVE LeavesInRange(_, _, _)
LeavesInRange(poly, fixed, advice) ==
    CASE poly[1] = "Fixed" -> InRange(fixed, poly[2])
      [] poly[1] = "Advice" -> InRange(advice, poly[2])
      [] poly[1] \in {"Sum", "Product"} ->
            LeavesInRange(poly[2], fixed, advice) /\ LeavesInRange(poly[3], fixed, advice)
      [] poly[1] = "Scaled" -> LeavesInRange(poly[2], fixed, advice)

RECURSIVE Evaluate(_, _, _)
Evaluate(poly, fixed, advice) ==
    CASE poly[1] = "Fixed" -> At(fixed, poly[2])
      [] poly[1] = "Advice" -> At(advice, poly[2])
      [] poly[1] = "Sum" -> Add(Evaluate(poly[2], fixed, advice), Evaluate(poly[3], fixed, advice))
      [] poly[1] = "Product" -> Mul(Evaluate(poly[2], fixed, advice), Evaluate(poly[3], fixed, advice))
      [] poly[1] = "Scaled" -> Mul(Evaluate(poly[2], fixed, advice), poly[3])

-----------------------------------------------------------------------------
(* Inputs: circuit metadata, proofs, parameters *)

\* Two advice queries and one fixed query, all on the row of rotation 0.
MetaSameRow ==
    [gates |-> << <<"Product", <<"Advice", 0>>, <<"Fixed", 0>>>>,
                  <<"Sum", <<"Advice", 1>>, <<"Scaled", <<"Fixed", 0>>, 2>>>> >>,
     advice_queries |-> << <<0, 0>>, <<1, 0>> >>,
     fixed_queries |-> << <<0, 0>> >>,
     query_rows |-> (0 :> 0)]

\* One advice wire queried at rotations 0 and 1.
MetaRotated ==
    [gates |-> << <<"Sum", <<"Advice", 0>>, <<"Advice", 1>>>> >>,
     advice_queries |-> << <<0, 0>>, <<0, 1>> >>,
     fixed_queries |-> << <<0, 0>> >>,
     query_rows |-> (0 :> 0) @@ (1 :> 1)]

\* Rotation -1 was queried after rotation 0, so it has the larger row index.
MetaPrev ==
    [gates |-> << <<"Product", <<"Advice", 0>>, <<"Advice", 1>>>>, <<"Fixed", 0>> >>,
     advice_queries |-> << <<0, 0>>, <<1, -1>> >>,
     fixed_queries |-> << <<0, -1>> >>,
     query_rows |-> (0 :> 0) @@ (-1 :> 1)]

\* A gate whose advice leaf index is past the end of advice_evals_x.
MetaBadLeaf ==
    [gates |-> << <<"Fixed", 0>>, <<"Sum", <<"Advice", 0>>, <<"Advice", 2>>>> >>,
     advice_queries |-> << <<0, 0>>, <<1, 0>> >>,
     fixed_queries |-> << <<0, 0>> >>,
     query_rows |-> (0 :> 0)]

\* A query row (rotation 1) that no advice or fixed query uses.
MetaUnusedRow ==
    [gates |-> << <<"Sum", <<"Advice", 0>>, <<"Advice", 1>>>> >>,
     advice_queries |-> << <<0, 0>>, <<1, 0>> >>,
     fixed_queries |-> << <<0, 0>> >>,
     query_rows |-> (0 :> 0) @@ (1 :> 1)]

\* No query at rotation 0 at all.
MetaNoRowZero ==
    [gates |-> << <<"Sum", <<"Advice", 0>>, <<"Advice", 1>>>> >>,
     advice_queries |-> << <<0, 1>>, <<1, 1>> >>,
     fixed_queries |-> << <<0, 1>> >>,
     query_rows |-> (1 :> 0)]

\* The row of rotation 0 holds the quotient chunks only: every advice and fixed
\* query is at rotation 1.
MetaChunkRow ==
    [gates |-> << <<"Sum", <<"Advice", 0>>, <<"Advice", 1>>>> >>,
     advice_queries |-> << <<0, 1>>, <<1, 1>> >>,
     fixed_queries |-> << <<0, 1>> >>,
     query_rows |-> (0 :> 0) @@ (1 :> 1)]

Metas == {MetaSameRow, MetaRotated, MetaPrev, MetaBadLeaf, MetaUnusedRow,
          MetaNoRowZero, MetaChunkRow}

\* Domains of F_5: size 2 (omega = 4) and size 4 (omega = 2).
Domains == {[omega |-> 4, omega_inv |-> 4], [omega |-> 2, omega_inv |-> 3]}

\* The size of the evaluation domain: the order of its root of unity.
DomainSize(domain) == Min({k \in 1 .. (P - 1) : Pow(domain.omega, k) = 1})

BaseSRS ==
    [meta |-> MetaSameRow,
     fixed_commitments |-> <<4>>,
     domain |-> [omega |-> 4, omega_inv |-> 4]]

BaseParams == [n |-> 2]

\* All sequences over vals of length at most MaxChunks.
ChunkSeqs(vals) == UNION {[1 .. k -> vals] : k \in 0 .. MaxChunks}

\* k quotient-chunk commitments, none the identity.
ChunkCommitments(k) == [i \in 1 .. k |-> 1 + (i % (P - 1))]

\* k quotient-chunk evaluations.
ChunkEvals(k) == [i \in 1 .. k |-> (P + 3 - i) % P]

BaseProof ==
    [advice_commitments |-> <<1, 2>>,
     h_commitments |-> ChunkCommitments(2),
     advice_evals_x |-> <<1, 2>>,
     fixed_evals_x |-> <<3>>,
     h_evals_x |-> ChunkEvals(2),
     q_evals |-> <<2, 4>>,
     f_commitment |-> 3,
     opening |-> "opening"]

Input(pr, s, pa) == [proof |-> pr, srs |-> s, params |-> pa]

\* Quotient chunks of every value, as many commitments as evaluations.
InputsChunks ==
    {Input([BaseProof EXCEPT !.h_evals_x = he,
                             !.h_commitments = ChunkCommitments(Len(he))],
           BaseSRS, BaseParams) :
        he \in ChunkSeqs({1, 3})}

\* Chunk commitments and chunk evaluations of every pair of lengths.
InputsLengths ==
    {Input([BaseProof EXCEPT !.h_commitments = ChunkCommitments(kc),
                             !.h_evals_x = ChunkEvals(ke)],
           BaseSRS, BaseParams) :
        kc \in 0 .. MaxChunks, ke \in 0 .. MaxChunks}

\* Every metadata, a proof without quotient-chunk commitments, and proofs
\* holding an identity point.
InputsMalformed ==
    {Input(BaseProof, [BaseSRS EXCEPT !.meta = m], BaseParams) : m \in Metas}
    \cup
    {Input([BaseProof EXCEPT !.h_commitments = << >>],
           [BaseSRS EXCEPT !.meta = MetaChunkRow], BaseParams)}
    \cup
    {Input([BaseProof EXCEPT !.advice_commitments = ac,
                             !.h_commitments = hc,
                             !.f_commitment = fc],
           BaseSRS, BaseParams) :
        ac \in {<<1, 2>>, <<1, Identity>>}, hc \in {<<1, 2>>, <<Identity, 2>>},
        fc \in {3, Identity}}

\* Every domain with every params.n, matching or not.
InputsDomain ==
    {Input(BaseProof, [BaseSRS EXCEPT !.meta = m, !.domain = d], [n |-> n]) :
        m \in {MetaSameRow, MetaRotated}, d \in Domains, n \in {2, 4}}

Inputs == InputsChunks \cup InputsLengths \cup InputsMalformed \cup InputsDomain

-----------------------------------------------------------------------------
(* Transcripts: the sequence of absorb and squeeze events so far *)

AbsorbPoint(c) == [op |-> "absorb_point", pt |-> c, ts |-> << >>]
\* squeeze, with the challenge scalar derived from its output
Squeeze(c) == [op |-> "squeeze", pt |-> c, ts |-> << >>]
\* absorb of the scalar transcript's squeeze output, named by the scalar
\* transcript's history up to and including that squeeze
AbsorbScalarSqueeze(ts) == [op |-> "absorb", pt |-> None, ts |-> ts]
\* the opening protocol continuing the Fiat-Shamir chain on the transcript
OpeningEvent == [op |-> "opening", pt |-> None, ts |-> << >>]

ScalarAbsorb(e) == <<"absorb", e>>
ScalarSqueeze == <<"squeeze", None>>

RECURSIVE AbsorbAll(_, _, _)
AbsorbAll(ts, evals, k) ==
    IF k > Len(evals) THEN ts
    ELSE AbsorbAll(Append(ts, ScalarAbsorb(evals[k])), evals, k + 1)

\* hash_point: Err on the point at infinity, else absorb the point
HashPointOk(c) == c # Identity

\* for c in cs { hash_point(t, c).expect(..) }: absorbs up to the first identity
RECURSIVE HashPoints(_, _, _)
HashPoints(t, cs, k) ==
    IF k > Len(cs) THEN [t |-> t, ok |-> TRUE]
    ELSE IF ~HashPointOk(cs[k]) THEN [t |-> t, ok |-> FALSE]
    ELSE HashPoints(Append(t, AbsorbPoint(cs[k])), cs, k + 1)

-----------------------------------------------------------------------------
Init ==
    /\ \E in \in Inputs :
          /\ proof = in.proof
          /\ srs = in.srs
          /\ params = in.params
    /\ pc = "absorb_advice"
    /\ result = "running"
    /\ transcript = << >>
    /\ transcript_scalar = << >>
    /\ x_2 = None /\ x_3 = None /\ x_4 = None
    /\ x_5 = None /\ x_6 = None /\ x_7 = None
    /\ h_eval = None /\ xn = None /\ expected_h_eval = None
    /\ q_commitments = << >> /\ q_evals = << >>
    /\ f_eval = None /\ f_commitment = None
    /\ opening_call = << >>

\* a failed expect()/unwrap()/index: the call never returns
Panic ==
    /\ pc' = "done"
    /\ result' = "panic"

\* lines 16-19
AbsorbAdviceCommitments ==
    /\ pc = "absorb_advice"
    /\ LET r == HashPoints(transcript, proof.advice_commitments, 1) IN
          /\ transcript' = r.t
          /\ IF r.ok THEN pc' = "squeeze_x2" /\ result' = result ELSE Panic
    /\ UNCHANGED <<inputs, transcript_scalar, challenges, identity_vars,
                   merge_vars, fold_vars, opening_call>>

\* line 21
SqueezeX2 ==
    /\ pc = "squeeze_x2"
    /\ \E c \in Field :
          /\ transcript' = Append(transcript, Squeeze(c))
          /\ x_2' = c
    /\ pc' = "absorb_h"
    /\ UNCHANGED <<inputs, result, transcript_scalar, x_3, x_4, x_5, x_6, x_7,
                   identity_vars, merge_vars, fold_vars, opening_call>>

\* lines 23-25
AbsorbHCommitments ==
    /\ pc = "absorb_h"
    /\ LET r == HashPoints(transcript, proof.h_commitments, 1) IN
          /\ transcript' = r.t
          /\ IF r.ok THEN pc' = "squeeze_x3" /\ result' = result ELSE Panic
    /\ UNCHANGED <<inputs, transcript_scalar, challenges, identity_vars,
                   merge_vars, fold_vars, opening_call>>

\* line 27
SqueezeX3 ==
    /\ pc = "squeeze_x3"
    /\ \E c \in Field :
          /\ transcript' = Append(transcript, Squeeze(c))
          /\ x_3' = c
    /\ pc' = "absorb_evals"
    /\ UNCHANGED <<inputs, result, transcript_scalar, x_2, x_4, x_5, x_6, x_7,
                   identity_vars, merge_vars, fold_vars, opening_call>>

\* lines 29-41
AbsorbEvals ==
    /\ pc = "absorb_evals"
    /\ transcript_scalar' =
          AbsorbAll(AbsorbAll(AbsorbAll(<< >>, proof.advice_evals_x, 1),
                              proof.fixed_evals_x, 1),
                    proof.h_evals_x, 1)
    /\ pc' = "gates"
    /\ UNCHANGED <<inputs, result, transcript, challenges, identity_vars,
                   merge_vars, fold_vars, opening_call>>

-----------------------------------------------------------------------------
(* Gate evaluation and the quotient identity check *)

\* GateStep with the new evaluation scaled instead of the running sum
GateStepScalesNew(h, x, evaluation) == Add(h, Mul(evaluation, x))

\* one pass of the loop body, lines 46-56: h_eval = h_eval * x_2 + evaluation
GateStep(h, x, evaluation) == Add(Mul(h, x), evaluation)

\* lines 44-57, gates taken in list order from index k on
RECURSIVE GateSum(_, _, _, _, _)
GateSum(h, gates, k, x, pr) ==
    IF k > Len(gates) THEN h
    ELSE GateSum(GateStep(h, x, Evaluate(gates[k], pr.fixed_evals_x, pr.advice_evals_x)),
                 gates, k + 1, x, pr)

\* lines 49-50: every leaf index of every gate is inside its Vec
GatesInRange(gates, pr) ==
    \A k \in 1 .. Len(gates) :
        LeavesInRange(gates[k], pr.fixed_evals_x, pr.advice_evals_x)

\* lines 62-67: expected_h_eval += cur * eval; cur *= xn
RECURSIVE ExpectedHEval(_, _, _, _, _)
ExpectedHEval(acc, cur, evals, k, base) ==
    IF k > Len(evals) THEN acc
    ELSE ExpectedHEval(Add(acc, Mul(cur, evals[k])), Mul(cur, base), evals, k + 1, base)

\* line 58
XnOf(x, n) == Pow(x, n)

\* IdentityHolds with the comparison dropped
IdentityNotCompared(h, expected) == TRUE

\* line 69: the comparison that lets verification go on
IdentityHolds(h, expected) == h = expected

\* lines 44-57
EvaluateGates ==
    /\ pc = "gates"
    /\ IF GatesInRange(srs.meta.gates, proof)
       THEN /\ h_eval' = GateSum(0, srs.meta.gates, 1, x_2, proof)
            /\ pc' = "identity"
            /\ result' = result
       ELSE /\ Panic
            /\ h_eval' = h_eval
    /\ UNCHANGED <<inputs, transcript, transcript_scalar, challenges, xn,
                   expected_h_eval, merge_vars, fold_vars, opening_call>>

\* lines 58-71
QuotientIdentity ==
    /\ pc = "identity"
    /\ xn' = XnOf(x_3, params.n)
    /\ IF ~IsInvertible(Sub(xn', 1))
       THEN /\ Panic
            /\ UNCHANGED <<h_eval, expected_h_eval>>
       ELSE /\ h_eval' = Mul(h_eval, Invert(Sub(xn', 1)))
            /\ expected_h_eval' = ExpectedHEval(0, 1, proof.h_evals_x, 1, xn')
            /\ IF IdentityHolds(h_eval', expected_h_eval')
               THEN pc' = "derive_x4" /\ result' = result
               ELSE pc' = "done" /\ result' = "false"
    /\ UNCHANGED <<inputs, transcript, transcript_scalar, challenges,
                   merge_vars, fold_vars, opening_call>>

\* lines 73-77; from_bytes(..).unwrap() fails when the squeezed scalar is no
\* canonical encoding of a base-field element
DeriveX4 ==
    /\ pc = "derive_x4"
    /\ transcript_scalar' = Append(transcript_scalar, ScalarSqueeze)
    /\ \E decoded \in BOOLEAN :
          IF decoded
          THEN /\ \E c \in Field :
                      /\ transcript' = Append(Append(transcript,
                                                     AbsorbScalarSqueeze(transcript_scalar')),
                                              Squeeze(c))
                      /\ x_4' = c
               /\ pc' = "merge_advice"
               /\ result' = result
          ELSE /\ Panic
               /\ UNCHANGED <<transcript, x_4>>
    /\ UNCHANGED <<inputs, x_2, x_3, x_5, x_6, x_7, identity_vars,
                   merge_vars, fold_vars, opening_call>>

-----------------------------------------------------------------------------
(* Stage A: same-point merge, lines 79-132 *)

\* number of query rows: the length of q_commitments and q_evals, lines 79-80
NumRows == Cardinality(DOMAIN srs.meta.query_rows)
RowInRange(row) == row >= 0 /\ row < NumRows

\* a contribution: its row, commitment and evaluation; ok is FALSE when the
\* code panics on it (query_rows.get(at).unwrap(), or an index out of range)
Contribution(ok, row, c, e) == [ok |-> ok, row |-> row, c |-> c, e |-> e]
Failed == Contribution(FALSE, None, None, None)

\* lines 83-89, 93, 96: the i-th advice query (i from 0)
AdviceContribution(i) ==
    LET wire == srs.meta.advice_queries[i + 1][1]
        at == srs.meta.advice_queries[i + 1][2]
    IN IF /\ at \in DOMAIN srs.meta.query_rows
          /\ RowInRange(srs.meta.query_rows[at])
          /\ InRange(proof.advice_commitments, wire)
          /\ InRange(proof.advice_evals_x, i)
       THEN Contribution(TRUE, srs.meta.query_rows[at],
                         At(proof.advice_commitments, wire), At(proof.advice_evals_x, i))
       ELSE Failed

\* lines 100-105, 109, 112: the i-th fixed query (i from 0)
FixedContribution(i) ==
    LET wire == srs.meta.fixed_queries[i + 1][1]
        at == srs.meta.fixed_queries[i + 1][2]
    IN IF /\ at \in DOMAIN srs.meta.query_rows
          /\ RowInRange(srs.meta.query_rows[at])
          /\ InRange(srs.fixed_commitments, wire)
          /\ InRange(proof.fixed_evals_x, i)
       THEN Contribution(TRUE, srs.meta.query_rows[at],
                         At(srs.fixed_commitments, wire), At(proof.fixed_evals_x, i))
       ELSE Failed

\* line 116: zip stops at the shorter of the two lists
ZipLen(a, b) == IF Len(a) <= Len(b) THEN Len(a) ELSE Len(b)

\* lines 116-122, 126, 129: the i-th zipped quotient chunk (i from 0)
QuotientContribution(i) ==
    IF /\ 0 \in DOMAIN srs.meta.query_rows
       /\ RowInRange(srs.meta.query_rows[0])
    THEN Contribution(TRUE, srs.meta.query_rows[0],
                      At(proof.h_commitments, i), At(proof.h_evals_x, i))
    ELSE Failed

\* MergeStep with the new contribution scaled instead of the accumulator
MergeStepScalesNew(acc, row, c, e, x) ==
    IF At(acc.qc, row) = None
    THEN [qc |-> [acc.qc EXCEPT ![row + 1] = c],
          qe |-> [acc.qe EXCEPT ![row + 1] = e],
          ok |-> TRUE]
    ELSE [qc |-> [acc.qc EXCEPT ![row + 1] = Add(At(acc.qc, row), Mul(c, x))],
          qe |-> [acc.qe EXCEPT ![row + 1] = Add(At(acc.qe, row), Mul(e, x))],
          ok |-> TRUE]

\* lines 86-97 (103-113, 120-130): seed an empty slot, else Horner in x
MergeStep(acc, row, c, e, x) ==
    IF At(acc.qc, row) = None
    THEN [qc |-> [acc.qc EXCEPT ![row + 1] = c],
          qe |-> [acc.qe EXCEPT ![row + 1] = e],
          ok |-> TRUE]
    ELSE [qc |-> [acc.qc EXCEPT ![row + 1] = Add(Mul(At(acc.qc, row), x), c)],
          qe |-> [acc.qe EXCEPT ![row + 1] = Add(Mul(At(acc.qe, row), x), e)],
          ok |-> TRUE]

\* one of the three loops over its contributions, from the k-th on
RECURSIVE MergeLoop(_, _, _, _)
MergeLoop(acc, contribs, k, x) ==
    IF k > Len(contribs) THEN acc
    ELSE IF ~contribs[k].ok THEN [acc EXCEPT !.ok = FALSE]
    ELSE MergeLoop(MergeStep(acc, contribs[k].row, contribs[k].c, contribs[k].e, x),
                   contribs, k + 1, x)

Accumulators == [qc |-> q_commitments, qe |-> q_evals, ok |-> TRUE]

AdviceContributions ==
    [k \in 1 .. Len(srs.meta.advice_queries) |-> AdviceContribution(k - 1)]
FixedContributions ==
    [k \in 1 .. Len(srs.meta.fixed_queries) |-> FixedContribution(k - 1)]
QuotientContributions ==
    [k \in 1 .. ZipLen(proof.h_commitments, proof.h_evals_x) |-> QuotientContribution(k - 1)]


\* lines 79-98
MergeAdvice ==
    /\ pc = "merge_advice"
    /\ LET r == MergeLoop([qc |-> [k \in 1 .. NumRows |-> None],
                           qe |-> [k \in 1 .. NumRows |-> 0],
                           ok |-> TRUE],
                          AdviceContributions, 1, x_4)
       IN /\ q_commitments' = r.qc
          /\ q_evals' = r.qe
          /\ IF r.ok THEN pc' = "merge_fixed" /\ result' = result ELSE Panic
    /\ UNCHANGED <<inputs, transcript, transcript_scalar, challenges,
                   identity_vars, fold_vars, opening_call>>

\* lines 100-114
MergeFixed ==
    /\ pc = "merge_fixed"
    /\ LET r == MergeLoop(Accumulators, FixedContributions, 1, x_4)
       IN /\ q_commitments' = r.qc
          /\ q_evals' = r.qe
          /\ IF r.ok THEN pc' = "merge_quotient" /\ result' = result ELSE Panic
    /\ UNCHANGED <<inputs, transcript, transcript_scalar, challenges,
                   identity_vars, fold_vars, opening_call>>

\* lines 116-131
MergeQuotient ==
    /\ pc = "merge_quotient"
    /\ LET r == MergeLoop(Accumulators, QuotientContributions, 1, x_4)
       IN /\ q_commitments' = r.qc
          /\ q_evals' = r.qe
          /\ IF r.ok THEN pc' = "squeeze_x5" /\ result' = result ELSE Panic
    /\ UNCHANGED <<inputs, transcript, transcript_scalar, challenges,
                   identity_vars, fold_vars, opening_call>>

-----------------------------------------------------------------------------
(* Stage B: cross-point merge, lines 134-159 *)

\* line 134
SqueezeX5 ==
    /\ pc = "squeeze_x5"
    /\ \E c \in Field :
          /\ transcript' = Append(transcript, Squeeze(c))
          /\ x_5' = c
    /\ pc' = "absorb_f"
    /\ UNCHANGED <<inputs, result, transcript_scalar, x_2, x_3, x_4, x_6, x_7,
                   identity_vars, merge_vars, fold_vars, opening_call>>

\* lines 136-137
AbsorbFCommitment ==
    /\ pc = "absorb_f"
    /\ LET r == HashPoints(transcript, <<proof.f_commitment>>, 1) IN
          /\ transcript' = r.t
          /\ IF r.ok THEN pc' = "squeeze_x6" /\ result' = result ELSE Panic
    /\ UNCHANGED <<inputs, transcript_scalar, challenges, identity_vars,
                   merge_vars, fold_vars, opening_call>>

\* line 139
SqueezeX6 ==
    /\ pc = "squeeze_x6"
    /\ \E c \in Field :
          /\ transcript' = Append(transcript, Squeeze(c))
          /\ x_6' = c
    /\ pc' = "cross_point"
    /\ UNCHANGED <<inputs, result, transcript_scalar, x_2, x_3, x_4, x_5, x_7,
                   identity_vars, merge_vars, fold_vars, opening_call>>

\* query_rows.iter(): the map's entries by ascending rotation
RECURSIVE RowOrder(_)
RowOrder(rots) ==
    IF rots = {} THEN << >>
    ELSE <<Min(rots)>> \o RowOrder(rots \ {Min(rots)})

\* lines 145-153: x_3 * omega^row, or x_3 * omega_inv^|row| for a negative row
QueryPoint(row) ==
    IF row >= 0 THEN Mul(x_3, Pow(srs.domain.omega, row))
    ELSE Mul(x_3, Pow(srs.domain.omega_inv, Abs(row)))

\* lines 144, 154-155: indices in range and the denominator invertible
CrossTermOk(row) ==
    /\ InRange(proof.q_evals, srs.meta.query_rows[row])
    /\ InRange(q_evals, srs.meta.query_rows[row])
    /\ IsInvertible(Sub(x_6, QueryPoint(row)))

\* lines 144, 154-155: (self.q_evals[col] - q_evals[col]) / (x_6 - point)
CrossTerm(row) ==
    Mul(Sub(At(proof.q_evals, srs.meta.query_rows[row]), At(q_evals, srs.meta.query_rows[row])),
        Invert(Sub(x_6, QueryPoint(row))))

\* lines 142-159, rows from the k-th of the iteration order on
RECURSIVE CrossLoop(_, _, _)
CrossLoop(f, order, k) ==
    IF k > Len(order) THEN [f |-> f, ok |-> TRUE]
    ELSE IF ~CrossTermOk(order[k]) THEN [f |-> f, ok |-> FALSE]
    ELSE CrossLoop(Add(Mul(f, x_5), CrossTerm(order[k])), order, k + 1)

\* lines 141-159
CrossPointMerge ==
    /\ pc = "cross_point"
    /\ LET r == CrossLoop(0, RowOrder(DOMAIN srs.meta.query_rows), 1)
       IN /\ f_eval' = r.f
          /\ IF r.ok THEN pc' = "derive_x7" /\ result' = result ELSE Panic
    /\ UNCHANGED <<inputs, transcript, transcript_scalar, challenges,
                   identity_vars, merge_vars, f_commitment, opening_call>>

-----------------------------------------------------------------------------
(* Final reduction and the opening, lines 161-186 *)

\* lines 161-169
DeriveX7 ==
    /\ pc = "derive_x7"
    /\ transcript_scalar' =
          Append(AbsorbAll(transcript_scalar, proof.q_evals, 1), ScalarSqueeze)
    /\ \E decoded \in BOOLEAN :
          IF decoded
          THEN /\ \E c \in Field :
                      /\ transcript' = Append(Append(transcript,
                                                     AbsorbScalarSqueeze(transcript_scalar')),
                                              Squeeze(c))
                      /\ x_7' = c
               /\ pc' = "fold"
               /\ result' = result
          ELSE /\ Panic
               /\ UNCHANGED <<transcript, x_7>>
    /\ UNCHANGED <<inputs, x_2, x_3, x_4, x_5, x_6, identity_vars,
                   merge_vars, fold_vars, opening_call>>

\* line 174: q_commitments[col].as_ref().unwrap()
FoldRowOk(row) ==
    /\ InRange(q_commitments, srs.meta.query_rows[row])
    /\ At(q_commitments, srs.meta.query_rows[row]) # None
    /\ InRange(proof.q_evals, srs.meta.query_rows[row])

\* FoldStep folding in the accumulated evaluation q_evals[col] instead of the
\* proof's self.q_evals[col]
FoldStepAccumulatedEval(acc, row) ==
    [c |-> Add(Mul(acc.c, x_7), At(q_commitments, srs.meta.query_rows[row])),
     e |-> Add(Mul(acc.e, x_7), At(q_evals, srs.meta.query_rows[row])),
     ok |-> TRUE]

\* lines 173-176: one pass of the loop body for the row of rotation row
FoldStep(acc, row) ==
    [c |-> Add(Mul(acc.c, x_7), At(q_commitments, srs.meta.query_rows[row])),
     e |-> Add(Mul(acc.e, x_7), At(proof.q_evals, srs.meta.query_rows[row])),
     ok |-> TRUE]

\* lines 172-177, rows from the k-th of the iteration order on
RECURSIVE FoldLoop(_, _, _)
FoldLoop(acc, order, k) ==
    IF k > Len(order) THEN acc
    ELSE IF ~FoldRowOk(order[k]) THEN [acc EXCEPT !.ok = FALSE]
    ELSE FoldLoop(FoldStep(acc, order[k]), order, k + 1)

\* lines 171-177
FinalFold ==
    /\ pc = "fold"
    /\ LET r == FoldLoop([c |-> proof.f_commitment, e |-> f_eval, ok |-> TRUE],
                         RowOrder(DOMAIN srs.meta.query_rows), 1)
       IN /\ f_commitment' = r.c
          /\ f_eval' = r.e
          /\ IF r.ok THEN pc' = "verify_proof" /\ result' = result ELSE Panic
    /\ UNCHANGED <<inputs, transcript, transcript_scalar, challenges,
                   identity_vars, merge_vars, opening_call>>

\* OpeningTranscript as a fresh transcript instead of the one used so far
FreshTranscript == << >>

\* the transcript handed to params.verify_proof, line 181
OpeningTranscript == transcript

\* the evaluation point handed to params.verify_proof, line 182
OpeningPoint == x_6

\* lines 179-185: verify's value is the call's value
Returned(accepted) == IF accepted THEN "true" ELSE "false"

\* lines 179-185: the opening check's answer is the value returned
VerifyProof ==
    /\ pc = "verify_proof"
    /\ transcript' = Append(OpeningTranscript, OpeningEvent)
    /\ \E accepted \in BOOLEAN :
          /\ opening_call' = <<[opening |-> proof.opening,
                                transcript |-> OpeningTranscript,
                                point |-> OpeningPoint,
                                commitment |-> f_commitment,
                                eval |-> f_eval,
                                accepted |-> accepted]>>
          /\ result' = Returned(accepted)
    /\ pc' = "done"
    /\ UNCHANGED <<inputs, transcript_scalar, challenges, identity_vars,
                   merge_vars, fold_vars>>

-----------------------------------------------------------------------------
Next ==
    \/ AbsorbAdviceCommitments
    \/ SqueezeX2
    \/ AbsorbHCommitments
    \/ SqueezeX3
    \/ AbsorbEvals
    \/ EvaluateGates
    \/ QuotientIdentity
    \/ DeriveX4
    \/ MergeAdvice
    \/ MergeFixed
    \/ MergeQuotient
    \/ SqueezeX5
    \/ AbsorbFCommitment
    \/ SqueezeX6
    \/ CrossPointMerge
    \/ DeriveX7
    \/ FinalFold
    \/ VerifyProof

Spec == Init /\ [][Next]_vars

-----------------------------------------------------------------------------
(* Closed forms the properties are stated with *)

\* sum of a sequence of field elements
RECURSIVE SumSeq(_)
SumSeq(terms) ==
    IF terms = << >> THEN 0 ELSE Add(terms[1], SumSeq(Tail(terms)))

\* vals[1] * x^(m-1) + vals[2] * x^(m-2) + ... + vals[m]
HornerValue(vals, x) ==
    SumSeq([j \in 1 .. Len(vals) |-> Mul(vals[j], Pow(x, Len(vals) - j))])

\* vals[1] + vals[2] * x + ... + vals[m] * x^(m-1)
PowerSum(vals, x) ==
    SumSeq([j \in 1 .. Len(vals) |-> Mul(vals[j], Pow(x, j - 1))])

\* the identity check was carried out: x_3^n was computed and x_3^n - 1 # 0
IdentityChecked == xn # None /\ Sub(xn, 1) # 0

\* verify returned false at line 70
IdentityRejected ==
    IdentityChecked /\ pc = "done" /\ result = "false" /\ opening_call = << >>

\* verify went past line 71
IdentityPassed == IdentityChecked /\ ~IdentityRejected

\* the gate sum of the claim: gates in list order, combined by powers of x_2
ClaimedGateSum ==
    HornerValue([k \in 1 .. Len(srs.meta.gates) |->
                    Evaluate(srs.meta.gates[k], proof.fixed_evals_x, proof.advice_evals_x)],
                x_2)

\* C1: the identity check passes exactly when gate_sum / (x_3^n - 1) equals
\* sum_i h_evals_x[i] * (x_3^n)^i, gate_sum being the combination of the gates
\* in list order by x_2 and n being params.n; for three chunks the right-hand
\* side is c0 + c1 * x_3^n + c2 * x_3^(2n).
C1_QuotientIdentity ==
    IdentityChecked =>
        /\ xn = Pow(x_3, params.n)
        /\ IdentityPassed <=>
              (ClaimedGateSum = Mul(PowerSum(proof.h_evals_x, xn), Sub(xn, 1)))
        /\ Len(proof.h_evals_x) = 3 =>
              expected_h_eval =
                  (proof.h_evals_x[1]
                     + proof.h_evals_x[2] * Pow(x_3, params.n)
                     + proof.h_evals_x[3] * Pow(x_3, 2 * params.n)) % P

\* the check passed on three chunks with x_3^n neither 0 nor 1
C1_Witness ==
    /\ pc = "derive_x4"
    /\ Len(proof.h_evals_x) = 3
    /\ xn \notin {0, 1}
    /\ x_2 \notin {0, 1}

\* the events of the base transcript up to the identity check
EventsToIdentity ==
    [k \in 1 .. Len(proof.advice_commitments) |-> AbsorbPoint(proof.advice_commitments[k])]
    \o <<Squeeze(x_2)>>
    \o [k \in 1 .. Len(proof.h_commitments) |-> AbsorbPoint(proof.h_commitments[k])]
    \o <<Squeeze(x_3)>>

\* the events of the scalar transcript up to the identity check
ScalarEventsToIdentity ==
    [k \in 1 .. Len(proof.advice_evals_x) |-> ScalarAbsorb(proof.advice_evals_x[k])]
    \o [k \in 1 .. Len(proof.fixed_evals_x) |-> ScalarAbsorb(proof.fixed_evals_x[k])]
    \o [k \in 1 .. Len(proof.h_evals_x) |-> ScalarAbsorb(proof.h_evals_x[k])]

\* C2: when the identity check fails verify returns false at once (x_4..x_7 are
\* never squeezed, neither transcript absorbs anything more, verify_proof is not
\* called); when it passes and nothing aborts, verify returns the boolean that
\* params.verify_proof returned.
C2_EarlyReturn ==
    /\ (IdentityChecked /\ h_eval # expected_h_eval) =>
          /\ pc = "done" /\ result = "false"
          /\ x_4 = None /\ x_5 = None /\ x_6 = None /\ x_7 = None
          /\ transcript = EventsToIdentity
          /\ transcript_scalar = ScalarEventsToIdentity
          /\ opening_call = << >>
    /\ (IdentityPassed /\ pc = "done" /\ result # "panic") =>
          /\ opening_call # << >>
          /\ result = (IF opening_call[1].accepted THEN "true" ELSE "false")
    /\ result = "true" => IdentityPassed /\ h_eval = expected_h_eval

\* verify returned true: the identity check passed and the opening accepted
C2_Witness ==
    /\ pc = "done" /\ result = "true"
    /\ opening_call # << >> /\ opening_call[1].accepted
    /\ h_eval # 0

\* the scalar transcript's history at its first and at its second squeeze
ScalarEventsAtFirstSqueeze == ScalarEventsToIdentity \o <<ScalarSqueeze>>
ScalarEventsAtSecondSqueeze ==
    ScalarEventsAtFirstSqueeze
    \o [k \in 1 .. Len(proof.q_evals) |-> ScalarAbsorb(proof.q_evals[k])]
    \o <<ScalarSqueeze>>

\* the base transcript's events when the opening dispatcher is reached
EventsToOpening ==
    EventsToIdentity
    \o <<AbsorbScalarSqueeze(ScalarEventsAtFirstSqueeze), Squeeze(x_4), Squeeze(x_5),
         AbsorbPoint(proof.f_commitment), Squeeze(x_6),
         AbsorbScalarSqueeze(ScalarEventsAtSecondSqueeze), Squeeze(x_7)>>

\* C3: in a run that reaches the opening dispatcher the base transcript saw:
\* advice commitments, squeeze x_2, quotient commitments, squeeze x_3, the scalar
\* transcript's squeeze after the advice, fixed and quotient evaluations, squeeze
\* x_4, squeeze x_5, f_commitment, squeeze x_6, the scalar transcript's squeeze
\* after q_evals as well, squeeze x_7; that very transcript goes to
\* params.verify_proof, which continues on it, with evaluation point x_6.
C3_TranscriptOrder ==
    opening_call # << >> =>
        /\ opening_call[1].transcript = EventsToOpening
        /\ transcript = Append(EventsToOpening, OpeningEvent)
        /\ opening_call[1].point = x_6
        /\ \A c \in {x_2, x_3, x_4, x_5, x_6, x_7} : c \in Field

\* the opening was called with six challenges that are not all the same
C3_Witness ==
    /\ opening_call # << >>
    /\ Cardinality({x_2, x_3, x_4, x_5, x_6, x_7}) >= 4
    /\ Len(proof.h_commitments) >= 2

\* Stage A ran to its end
StageADone == pc = "squeeze_x5" \/ x_5 # None

\* the query contributions of the claim, in its order: advice queries as
\* listed, then fixed queries as listed
ClaimedQueryContributions ==
    [k \in 1 .. Len(srs.meta.advice_queries) |->
        [row |-> srs.meta.query_rows[srs.meta.advice_queries[k][2]],
         c |-> proof.advice_commitments[srs.meta.advice_queries[k][1] + 1],
         e |-> proof.advice_evals_x[k]]]
    \o [k \in 1 .. Len(srs.meta.fixed_queries) |->
        [row |-> srs.meta.query_rows[srs.meta.fixed_queries[k][2]],
         c |-> srs.fixed_commitments[srs.meta.fixed_queries[k][1] + 1],
         e |-> proof.fixed_evals_x[k]]]

\* then the quotient chunks, each commitment with its evaluation, on the row
\* of rotation 0
ClaimedContributions ==
    ClaimedQueryContributions
    \o [k \in 1 .. Min({Len(proof.h_commitments), Len(proof.h_evals_x)}) |->
        [row |-> srs.meta.query_rows[0],
         c |-> proof.h_commitments[k],
         e |-> proof.h_evals_x[k]]]

\* the contributions to row r, in order
RECURSIVE OnRow(_, _)
OnRow(cs, r) ==
    IF cs = << >> THEN << >>
    ELSE (IF cs[1].row = r THEN <<cs[1]>> ELSE << >>) \o OnRow(Tail(cs), r)

\* C7: after Stage A the pair accumulated at each row is the Horner combination
\* in x_4 of the contributions to that row, advice queries first in listed
\* order, then fixed queries, then quotient chunks (on the row of rotation 0),
\* each pairing the queried wire's commitment with the evaluation at the query's
\* position; two advice queries and a fixed query on one row give
\* (a1 * x_4 + a2) * x_4 + f.
C7_SamePointMerge ==
    StageADone =>
        /\ \A r \in 0 .. (NumRows - 1) :
              LET cs == OnRow(ClaimedContributions, r) IN
              IF cs = << >> THEN At(q_commitments, r) = None
              ELSE /\ At(q_commitments, r) =
                         HornerValue([k \in 1 .. Len(cs) |-> cs[k].c], x_4)
                   /\ At(q_evals, r) =
                         HornerValue([k \in 1 .. Len(cs) |-> cs[k].e], x_4)
        /\ (srs.meta = MetaSameRow /\ (proof.h_commitments = << >> \/ proof.h_evals_x = << >>)) =>
              /\ q_evals[1] =
                    ((proof.advice_evals_x[1] * x_4 + proof.advice_evals_x[2]) * x_4
                        + proof.fixed_evals_x[1]) % P
              /\ q_commitments[1] =
                    ((proof.advice_commitments[1] * x_4 + proof.advice_commitments[2]) * x_4
                        + srs.fixed_commitments[1]) % P

\* a row that took two advice queries, a fixed query and two quotient chunks
C7_Witness ==
    /\ pc = "squeeze_x5"
    /\ x_4 \notin {0, 1}
    /\ Len(OnRow(ClaimedContributions, 0)) >= 5
    /\ Len(proof.h_evals_x) >= 2

\* the rotations of query_rows in ascending order
ByRotation ==
    CHOOSE order \in [1 .. NumRows -> DOMAIN srs.meta.query_rows] :
        \A j, k \in 1 .. NumRows : j < k => order[j] < order[k]

\* f_eval as Stage B left it: the row terms combined by powers of x_5
StageBEval ==
    HornerValue([k \in 1 .. NumRows |-> CrossTerm(ByRotation[k])], x_5)

\* C8 (as amended): the pair handed to params.verify_proof is the Horner fold
\* in x_7 that starts from (f_commitment, f_eval) and takes the query rows in
\* the order of their rotations, folding in for each row its Stage A accumulated
\* commitment and the proof's claimed evaluation q_evals[row].
C8_FinalFoldClaimedEvals ==
    opening_call # << >> =>
        /\ opening_call[1].commitment =
              Add(Mul(proof.f_commitment, Pow(x_7, NumRows)),
                  HornerValue([k \in 1 .. NumRows |->
                                  At(q_commitments, srs.meta.query_rows[ByRotation[k]])], x_7))
        /\ opening_call[1].eval =
              Add(Mul(StageBEval, Pow(x_7, NumRows)),
                  HornerValue([k \in 1 .. NumRows |->
                                  At(proof.q_evals, srs.meta.query_rows[ByRotation[k]])], x_7))

\* the opening was called for two rows whose rotation order is not their index
\* order and whose claimed evaluations differ from the accumulated ones
C8_Witness ==
    /\ opening_call # << >>
    /\ NumRows = 2
    /\ srs.meta.query_rows[ByRotation[1]] = 1
    /\ x_7 \notin {0, 1}
    /\ q_evals # proof.q_evals

\* C8 (as stated): the fold takes the rows in increasing row-index order and
\* folds in each row's Stage A accumulated (commitment, evaluation) pair.
C8_FinalFoldAccumulatedPairs ==
    opening_call # << >> =>
        /\ opening_call[1].commitment =
              Add(Mul(proof.f_commitment, Pow(x_7, NumRows)),
                  HornerValue([k \in 1 .. NumRows |-> q_commitments[k]], x_7))
        /\ opening_call[1].eval =
              Add(Mul(StageBEval, Pow(x_7, NumRows)),
                  HornerValue([k \in 1 .. NumRows |-> q_evals[k]], x_7))

\* a commitment of the proof is the point at infinity
HasIdentityCommitment ==
    \/ \E k \in 1 .. Len(proof.advice_commitments) : proof.advice_commitments[k] = Identity
    \/ \E k \in 1 .. Len(proof.h_commitments) : proof.h_commitments[k] = Identity
    \/ proof.f_commitment = Identity

\* a gate leaf indexes past the end of fixed_evals_x or advice_evals_x
HasLeafOutOfRange ==
    \E k \in 1 .. Len(srs.meta.gates) :
        ~LeavesInRange(srs.meta.gates[k], proof.fixed_evals_x, proof.advice_evals_x)

\* C4: a proof with an identity-point commitment, or a gate leaf index out of
\* range, makes verify end with a Malformed error: no abort, no true.
C4_MalformedError ==
    (pc = "done" /\ (HasIdentityCommitment \/ HasLeafOutOfRange)) => result = "malformed"

\* C5: when a denominator is zero (x_3^n = 1 in the identity check, or x_6 equal
\* to a row's point x_3 * omega^rotation in the cross-point merge) verify ends
\* with a rejection, not with a crash.
C5_ZeroDenominatorRejects ==
    /\ (pc = "done" /\ xn = 1) => result \in {"false", "malformed"}
    /\ (pc = "done" /\ x_6 # None
          /\ \E row \in DOMAIN srs.meta.query_rows : x_6 = QueryPoint(row))
        => result \in {"false", "malformed"}

\* C6: when params.n is not the size of srs.domain, verify rejects before any
\* challenge is squeezed from the base transcript and before x_3^n is computed.
C6_DomainMismatchRejected ==
    params.n # DomainSize(srs.domain) =>
        /\ \A k \in 1 .. Len(transcript) : transcript[k].op # "squeeze"
        /\ xn = None
        /\ pc = "done" => result \in {"false", "malformed"}

\* C9: once the identity check has passed, Stage A leaves an accumulated pair on
\* every row of query_rows, so the final fold finds a commitment on each row.
C9_EveryRowAccumulated ==
    (x_4 # None /\ pc \notin {"merge_advice", "merge_fixed", "merge_quotient"}) =>
        /\ Len(q_commitments) = NumRows
        /\ \A k \in 1 .. NumRows : q_commitments[k] # None
        /\ ~(result = "panic" /\ x_5 = None)
        /\ ~(result = "panic" /\ x_7 # None)

\* C10: every quotient-chunk evaluation of the identity check and every
\* quotient-chunk commitment absorbed into the base transcript is folded into
\* the accumulator of the row of rotation 0, whatever the two lengths.
C10_EveryChunkBound ==
    (StageADone /\ 0 \in DOMAIN srs.meta.query_rows) =>
        LET row == srs.meta.query_rows[0]
            before == OnRow(ClaimedQueryContributions, row)
        IN /\ At(q_evals, row) =
                 HornerValue([k \in 1 .. Len(before) |-> before[k].e] \o proof.h_evals_x, x_4)
           /\ At(q_commitments, row) =
                 HornerValue([k \in 1 .. Len(before) |-> before[k].c] \o proof.h_commitments, x_4)

====
